---- MODULE Spec2Model ----
(***************************************************************************)
(* Infinity Crypto Signals backend (src/server.js): the multi-provider     *)
(* candle aggregator fetchKlines, the SMC detectors and zone collectors,   *)
(* the marker synthesizer buildSMCSignals, the confluence combiner         *)
(* buildMtf and the /api/mtf-signals handler.                              *)
(*                                                                         *)
(* JavaScript values: null, undefined and a thrown TypeError are the       *)
(* records Null, Undefined and TypeError; arrays are sequences, read with  *)
(* 0-based indices through At.  Prices are integers.  A candle's time is   *)
(* held in thousandths of a second, so that k[0] / 1000 stays an integer.  *)
(***************************************************************************)
EXTENDS Integers, Sequences, FiniteSets, TLC

VARIABLES
  pc,           \* position of the /api/mtf-signals handler
  symbol,       \* req.query.symbol
  htfInterval,  \* req.query.htf
  ltfInterval,  \* req.query.ltf
  sources,      \* fetchKlines: the provider list of the running call
  srcIdx,       \* fetchKlines: 1-based position of `src` in sources (0: no call)
  requested,    \* fetchKlines: the requests issued by the running call, in order
  inflight,     \* fetchKlines: number of provider requests awaiting a response
  lastError,    \* fetchKlines: let lastError
  response,     \* fetchKlines: the response last received
  awaited,      \* fetchKlines: the promise it is parked on: fetch, json or none
  returned,     \* fetchKlines: what the running call returned or threw
  htfData,      \* handler: const htfData
  ltfData,      \* handler: const ltfData
  reply,        \* handler: what was sent with res.json / res.status(500).json
  candlesInput, \* analysis: the candle sequence handed to buildSMCSignals
  analysis,     \* analysis: buildSMCSignals(candlesInput)
  htf,          \* combiner: first argument of buildMtf
  ltf,          \* combiner: second argument of buildMtf
  mtf           \* combiner: buildMtf(htf, ltf)

vars == <<pc, symbol, htfInterval, ltfInterval, sources, srcIdx, requested,
          inflight, lastError, response, awaited, returned, htfData, ltfData,
          reply, candlesInput, analysis, htf, ltf, mtf>>

handlerVars == <<pc, symbol, htfInterval, ltfInterval, sources, srcIdx,
                 requested, inflight, lastError, response, awaited, returned,
                 htfData, ltfData, reply>>

analysisVars == <<candlesInput, analysis>>

combinerVars == <<htf, ltf, mtf>>

(***************************************************************************)
(* Bounds of the model.                                                    *)
(***************************************************************************)
MaxLen == 4      \* longest candle sequence analysed
MaxPrice == 2    \* candle prices range over 0..MaxPrice
MaxRows == 2     \* most rows in one provider response
MaxTick == 2     \* row timestamps are 500 * (1..MaxTick) milliseconds
MaxZones == 1    \* most zones in each HTF zone list handed to buildMtf
MaxLevel == 1    \* combiner prices and zone bounds range over 0..MaxLevel

(***************************************************************************)
(* JavaScript values.                                                      *)
(***************************************************************************)
Null == [type |-> "null"]

Undefined == [type |-> "undefined"]

TypeError == [type |-> "TypeError"]

\* candles[i], 0-based; out of range reads undefined
At(arr, i) == IF i \in 0 .. (Len(arr) - 1) THEN arr[i + 1] ELSE Undefined

Max(a, b) == IF a >= b THEN a ELSE b

\* Array.prototype.sort((a, b) => a.time - b.time): stable, ascending by time
RECURSIVE InsertByTime(_, _)
InsertByTime(sorted, c) ==
  IF sorted = <<>> THEN <<c>>
  ELSE IF sorted[Len(sorted)].time <= c.time THEN Append(sorted, c)
  ELSE Append(InsertByTime(SubSeq(sorted, 1, Len(sorted) - 1), c),
              sorted[Len(sorted)])

RECURSIVE ReverseSeq(_)
ReverseSeq(s) ==
  IF s = <<>> THEN <<>> ELSE Append(ReverseSeq(Tail(s)), Head(s))

RECURSIVE SortFrom(_, _)
SortFrom(done, rest) ==
  IF rest = <<>> THEN done
  ELSE SortFrom(InsertByTime(done, Head(rest)), Tail(rest))

SortByTime(arr) == SortFrom(<<>>, arr)

(***************************************************************************)
(* 2. SMC detection functions.                                             *)
(***************************************************************************)
detectBOS_BearishFirst(candles) ==
  LET n == Len(candles)
      a == At(candles, n - 3)
      b == At(candles, n - 2)
      d == At(candles, n - 1)
  IN  IF n < 3 THEN Null
      ELSE IF d.low < a.low /\ b.low >= a.low
        THEN [type |-> "BOS_BEARISH", time |-> d.time, level |-> a.low]
      ELSE IF d.high > a.high /\ b.high <= a.high
        THEN [type |-> "BOS_BULLISH", time |-> d.time, level |-> a.high]
      ELSE Null

detectBOS(candles) ==
  LET n == Len(candles)
      a == At(candles, n - 3)
      b == At(candles, n - 2)
      d == At(candles, n - 1)
  IN  IF n < 3 THEN Null
      ELSE IF Undefined \in {a, d} THEN TypeError
      ELSE IF b = Undefined /\ (d.high > a.high \/ d.low < a.low)
        THEN TypeError
      ELSE IF d.high > a.high /\ b.high <= a.high
        THEN [type |-> "BOS_BULLISH", time |-> d.time, level |-> a.high]
      ELSE IF d.low < a.low /\ b.low >= a.low
        THEN [type |-> "BOS_BEARISH", time |-> d.time, level |-> a.low]
      ELSE Null

detectCHOCH(candles) ==
  LET n == Len(candles)
      prev == At(candles, n - 4)
      swing == At(candles, n - 2)
      last == At(candles, n - 1)
  IN  IF n < 4 THEN Null
      ELSE IF Undefined \in {swing, last} THEN TypeError
      ELSE IF prev = Undefined
                /\ (last.high > swing.high \/ last.low < swing.low)
        THEN TypeError
      ELSE IF last.high > swing.high /\ swing.low < prev.low
        THEN [type |-> "CHOCH_BULLISH", time |-> last.time]
      ELSE IF last.low < swing.low /\ swing.high > prev.high
        THEN [type |-> "CHOCH_BEARISH", time |-> last.time]
      ELSE Null

detectLiquiditySweep_MinThree(candles) ==
  LET n == Len(candles)
      a == At(candles, n - 3)
      b == At(candles, n - 2)
      d == At(candles, n - 1)
  IN  IF n < 3 THEN Null
      ELSE IF d.high > a.high /\ d.close < b.close
        THEN [type |-> "SWEEP_HIGH", level |-> a.high, time |-> d.time]
      ELSE IF d.low < a.low /\ d.close > b.close
        THEN [type |-> "SWEEP_LOW", level |-> a.low, time |-> d.time]
      ELSE Null

detectLiquiditySweep(candles) ==
  LET n == Len(candles)
      a == At(candles, n - 3)
      b == At(candles, n - 2)
      d == At(candles, n - 1)
  IN  IF n < 4 THEN Null
      ELSE IF Undefined \in {a, d} THEN TypeError
      ELSE IF b = Undefined /\ (d.high > a.high \/ d.low < a.low)
        THEN TypeError
      ELSE IF d.high > a.high /\ d.close < b.close
        THEN [type |-> "SWEEP_HIGH", level |-> a.high, time |-> d.time]
      ELSE IF d.low < a.low /\ d.close > b.close
        THEN [type |-> "SWEEP_LOW", level |-> a.low, time |-> d.time]
      ELSE Null

\* default value of the collectors' depth parameter
Depth == 60

\* first index of the collectors' scan
ScanStart_FromOne(candles, depth) == Max(1, Len(candles) - depth)

ScanStart(candles, depth) == Max(2, Len(candles) - depth)

\* the zones one iteration of collectFVG's loop pushes
FvgAt(a, d) ==
  (IF a.high < d.low
     THEN <<[type |-> "FVG_BULLISH", lower |-> a.high, upper |-> d.low,
             time |-> d.time]>>
     ELSE <<>>)
  \o
  (IF d.high < a.low
     THEN <<[type |-> "FVG_BEARISH", lower |-> d.high, upper |-> a.low,
             time |-> d.time]>>
     ELSE <<>>)

RECURSIVE FvgLoop(_, _, _)
FvgLoop(candles, i, zones) ==
  IF ~(i < Len(candles)) THEN zones
  ELSE LET a == At(candles, i - 2)
           d == At(candles, i)
       IN  IF Undefined \in {a, d} THEN zones
           ELSE FvgLoop(candles, i + 1, zones \o FvgAt(a, d))

collectFVG(candles, depth) == FvgLoop(candles, ScanStart(candles, depth), <<>>)

\* collectFVG reads a field of undefined (a.high or d.low of a missing candle)
collectFVGThrows(candles, depth) ==
  \E i \in ScanStart(candles, depth) .. (Len(candles) - 1) :
    Undefined \in {At(candles, i - 2), At(candles, i)}

\* the zones one iteration of collectOrderBlocks' loop pushes
OrderBlockAt(prev, last) ==
  (IF prev.close < prev.open /\ last.close > last.open /\ last.close > prev.high
     THEN <<[type |-> "OB_BULLISH", time |-> prev.time, high |-> prev.high,
             low |-> prev.low]>>
     ELSE <<>>)
  \o
  (IF prev.close > prev.open /\ last.close < last.open /\ last.close < prev.low
     THEN <<[type |-> "OB_BEARISH", time |-> prev.time, high |-> prev.high,
             low |-> prev.low]>>
     ELSE <<>>)

RECURSIVE OrderBlockLoop(_, _, _)
OrderBlockLoop(candles, i, zones) ==
  IF ~(i < Len(candles)) THEN zones
  ELSE LET prev == At(candles, i - 1)
           last == At(candles, i)
       IN  IF prev = Undefined THEN zones
           ELSE IF last = Undefined /\ prev.close # prev.open THEN zones
           ELSE OrderBlockLoop(candles, i + 1, zones \o OrderBlockAt(prev, last))

collectOrderBlocks(candles, depth) ==
  OrderBlockLoop(candles, ScanStart(candles, depth), <<>>)

\* collectOrderBlocks reads a field of undefined: prev.close, or last.close
\* once prev.close < prev.open or prev.close > prev.open holds
collectOrderBlocksThrows(candles, depth) ==
  \E i \in ScanStart(candles, depth) .. (Len(candles) - 1) :
    LET prev == At(candles, i - 1)
        last == At(candles, i)
    IN  \/ prev = Undefined
        \/ last = Undefined /\ prev.close # prev.open

(***************************************************************************)
(* 3. Build SMC signals per timeframe.  A marker's text is held as its     *)
(* leading word and the rest, so that startsWith reads the leading word.   *)
(***************************************************************************)
BuyMarker(last) ==
  [time |-> last.time, position |-> "belowBar", color |-> "#00ff85",
   shape |-> "arrowUp", text |-> <<"BUY", " (CHOCH + Sweep)">>]

SellMarker(last) ==
  [time |-> last.time, position |-> "aboveBar", color |-> "#ff5555",
   shape |-> "arrowDown", text |-> <<"SELL", " (CHOCH + Sweep)">>]

Markers_AnySweep(last, choch, sweep) ==
  IF last # Undefined /\ choch # Null /\ sweep # Null
    THEN (IF choch.type = "CHOCH_BULLISH"
            THEN <<BuyMarker(last)>> ELSE <<>>)
         \o
         (IF choch.type = "CHOCH_BEARISH"
            THEN <<SellMarker(last)>> ELSE <<>>)
    ELSE <<>>

\* the markers array buildSMCSignals fills
Markers(last, choch, sweep) ==
  IF last # Undefined /\ choch # Null /\ sweep # Null
    THEN (IF choch.type = "CHOCH_BULLISH" /\ sweep.type = "SWEEP_LOW"
            THEN <<BuyMarker(last)>> ELSE <<>>)
         \o
         (IF choch.type = "CHOCH_BEARISH" /\ sweep.type = "SWEEP_HIGH"
            THEN <<SellMarker(last)>> ELSE <<>>)
    ELSE <<>>

buildSMCSignals(input) ==
  LET candles == SortByTime(input)
      bos == detectBOS(candles)
      choch == detectCHOCH(candles)
      sweep == detectLiquiditySweep(candles)
      last == At(candles, Len(candles) - 1)
  IN  IF \/ TypeError \in {bos, choch, sweep}
         \/ collectFVGThrows(candles, Depth)
         \/ collectOrderBlocksThrows(candles, Depth)
        THEN TypeError
        ELSE [type |-> "result",
              candles |-> candles,
              markers |-> Markers(last, choch, sweep),
              smcSignals |-> [bos |-> bos, choch |-> choch, sweep |-> sweep],
              fvgZones |-> collectFVG(candles, Depth),
              orderBlocks |-> collectOrderBlocks(candles, Depth)]

(***************************************************************************)
(* 4. Multi-timeframe confluence.                                          *)
(***************************************************************************)
inside(price, low, high) == price >= low /\ price <= high

getLatest(arr, type) ==
  LET f == SelectSeq(arr, LAMBDA z : z.type = type)
  IN  IF Len(f) > 0 THEN f[Len(f)] ELSE Null

startsWith(text, prefix) == Len(text) > 0 /\ text[1] = prefix

htfBias_DefaultBullish(bos, choch) ==
  IF choch.type = "CHOCH_BEARISH" \/ bos.type = "BOS_BEARISH"
    THEN "BEARISH" ELSE "BULLISH"

htfBias_BearishFirst(bos, choch) ==
  IF (choch # Null /\ choch.type = "CHOCH_BEARISH")
       \/ (bos # Null /\ bos.type = "BOS_BEARISH")
    THEN "BEARISH"
  ELSE IF (choch # Null /\ choch.type = "CHOCH_BULLISH")
            \/ (bos # Null /\ bos.type = "BOS_BULLISH")
    THEN "BULLISH"
  ELSE "NEUTRAL"

htfBias(bos, choch) ==
  IF (choch # Null /\ choch.type = "CHOCH_BULLISH")
       \/ (bos # Null /\ bos.type = "BOS_BULLISH")
    THEN "BULLISH"
  ELSE IF (choch # Null /\ choch.type = "CHOCH_BEARISH")
            \/ (bos # Null /\ bos.type = "BOS_BEARISH")
    THEN "BEARISH"
  ELSE "NEUTRAL"

\* { ...m, reason, price }
Signal(m, reason, price) ==
  [time |-> m.time, position |-> m.position, color |-> m.color,
   shape |-> m.shape, text |-> m.text, reason |-> reason, price |-> price]

\* if (!price): undefined (no last candle) and 0 are falsy
PriceFalsy(lastCandle) == lastCandle = Undefined \/ lastCandle.close = 0

\* what one iteration of buildMtf's loop pushes for marker m
MtfSignals(m, bias, price, bullFvg, bearFvg, bullOb, bearOb) ==
  (IF startsWith(m.text, "BUY") /\ bias = "BULLISH"
     THEN (IF bullFvg # Null /\ inside(price, bullFvg.lower, bullFvg.upper)
             THEN <<Signal(m, "BUY in HTF FVG", price)>> ELSE <<>>)
          \o
          (IF bullOb # Null /\ inside(price, bullOb.low, bullOb.high)
             THEN <<Signal(m, "BUY in HTF Order Block", price)>> ELSE <<>>)
     ELSE <<>>)
  \o
  (IF startsWith(m.text, "SELL") /\ bias = "BEARISH"
     THEN (IF bearFvg # Null /\ inside(price, bearFvg.lower, bearFvg.upper)
             THEN <<Signal(m, "SELL in HTF FVG", price)>> ELSE <<>>)
          \o
          (IF bearOb # Null /\ inside(price, bearOb.low, bearOb.high)
             THEN <<Signal(m, "SELL in HTF Order Block", price)>> ELSE <<>>)
     ELSE <<>>)

RECURSIVE MtfLoop(_, _, _, _, _)
MtfLoop(markers, i, finalSignals, h, lastCandle) ==
  IF ~(i < Len(markers)) THEN finalSignals
  ELSE IF PriceFalsy(lastCandle) THEN finalSignals
  ELSE MtfLoop(markers, i + 1,
               finalSignals \o
                 MtfSignals(At(markers, i),
                            htfBias(h.smcSignals.bos, h.smcSignals.choch),
                            lastCandle.close,
                            getLatest(h.fvgZones, "FVG_BULLISH"),
                            getLatest(h.fvgZones, "FVG_BEARISH"),
                            getLatest(h.orderBlocks, "OB_BULLISH"),
                            getLatest(h.orderBlocks, "OB_BEARISH")),
               h, lastCandle)

buildMtf(h, l) ==
  IF h = TypeError \/ l = TypeError THEN TypeError
  ELSE [type |-> "result",
        htfBias |-> htfBias(h.smcSignals.bos, h.smcSignals.choch),
        executionSignals |->
          MtfLoop(l.markers, 0, <<>>, h, At(l.candles, Len(l.candles) - 1))]

(***************************************************************************)
(* Helper: interval + symbol mappings.  A symbol is held as its tokens     *)
(* (<<"BTC", "USDT">> is "BTCUSDT"), so that String.replace can act on it. *)
(***************************************************************************)
OKX_BAR_MAP ==
  [k \in {"1m", "5m", "15m", "30m", "1h", "4h", "1d", "1w", "1M"} |->
     CASE k = "1h" -> "1H" [] k = "4h" -> "4H" [] k = "1d" -> "1D"
       [] k = "1w" -> "1W" [] OTHER -> k]

BYBIT_INTERVAL_MAP ==
  [k \in {"1m", "5m", "15m", "30m", "1h", "4h", "1d", "1w", "1M"} |->
     CASE k = "1m" -> "1" [] k = "5m" -> "5" [] k = "15m" -> "15"
       [] k = "30m" -> "30" [] k = "1h" -> "60" [] k = "4h" -> "240"
       [] k = "1d" -> "D" [] k = "1w" -> "W" [] k = "1M" -> "M"]

COINGECKO_DAYS_MAP ==
  [k \in {"1m", "5m", "15m", "30m", "1h", "4h", "1d", "1w", "1M"} |->
     CASE k = "1d" -> "30" [] k = "1w" -> "365" [] k = "1M" -> "365"
       [] OTHER -> "1"]

COINGECKO_SYMBOL_MAP ==
  [k \in {<<"BTC", "USDT">>, <<"ETH", "USDT">>, <<"XRP", "USDT">>,
          <<"BNB", "USDT">>, <<"SOL", "USDT">>, <<"ADA", "USDT">>,
          <<"DOGE", "USDT">>, <<"AVAX", "USDT">>, <<"LINK", "USDT">>} |->
     CASE k[1] = "BTC" -> "bitcoin" [] k[1] = "ETH" -> "ethereum"
       [] k[1] = "XRP" -> "ripple" [] k[1] = "BNB" -> "binancecoin"
       [] k[1] = "SOL" -> "solana" [] k[1] = "ADA" -> "cardano"
       [] k[1] = "DOGE" -> "dogecoin" [] k[1] = "AVAX" -> "avalanche-2"
       [] k[1] = "LINK" -> "chainlink"]

\* property names every object literal inherits from Object.prototype
ObjectPrototypeKeys ==
  {"constructor", "toString", "valueOf", "hasOwnProperty", "isPrototypeOf",
   "propertyIsEnumerable", "toLocaleString", "__proto__",
   "__defineGetter__", "__defineSetter__", "__lookupGetter__",
   "__lookupSetter__"}

\* table[key] || fallback: an own key reads its (truthy) value, an inherited
\* name reads the inherited (truthy) member, any other key reads undefined
LookupOr(table, key, fallback) ==
  IF key \in DOMAIN table THEN table[key]
  ELSE IF key \in ObjectPrototypeKeys THEN "[inherited member]"
  ELSE fallback

\* String.prototype.replace(from, to): the first occurrence only
RECURSIVE replace(_, _, _)
replace(tokens, from, to) ==
  IF tokens = <<>> THEN <<>>
  ELSE IF Head(tokens) = from THEN <<to>> \o Tail(tokens)
  ELSE <<Head(tokens)>> \o replace(Tail(tokens), from, to)

okxInstId(sym) == replace(replace(sym, "USDT", "-USDT"), "USDC", "-USDC")

okxBar(interval) == LookupOr(OKX_BAR_MAP, interval, interval)

bybitInterval_PassThrough(interval) ==
  LookupOr(BYBIT_INTERVAL_MAP, interval, interval)

bybitInterval(interval) == LookupOr(BYBIT_INTERVAL_MAP, interval, "60")

\* COINGECKO_SYMBOL_MAP[symbol], with "" for undefined
cgId(sym) ==
  IF sym \in DOMAIN COINGECKO_SYMBOL_MAP THEN COINGECKO_SYMBOL_MAP[sym]
  ELSE IF Len(sym) = 1 /\ sym[1] \in ObjectPrototypeKeys
    THEN "[inherited member]"
  ELSE ""

cgDays(interval) == LookupOr(COINGECKO_DAYS_MAP, interval, "1")

(***************************************************************************)
(* 1. Fetch candles from multiple sources.                                 *)
(***************************************************************************)
\* const sources = [ ... ].filter(Boolean)
Sources(sym, interval, limit) ==
  <<[name |-> "OKX",
     url |-> [host |-> "www.okx.com", instId |-> okxInstId(sym),
              bar |-> okxBar(interval), limit |-> limit]],
    [name |-> "BYBIT",
     url |-> [host |-> "api.bybit.com", symbol |-> sym,
              interval |-> bybitInterval(interval), limit |-> limit]],
    [name |-> "MEXC",
     url |-> [host |-> "api.mexc.com", symbol |-> sym,
              interval |-> interval, limit |-> limit]],
    [name |-> "BINANCE",
     url |-> [host |-> "api.binance.com", symbol |-> sym,
              interval |-> interval, limit |-> limit]]>>
  \o
  (IF cgId(sym) # ""
     THEN <<[name |-> "COINGECKO",
             url |-> [host |-> "api.coingecko.com", id |-> cgId(sym),
                      days |-> cgDays(interval)]]>>
     ELSE <<>>)

\* src.map applied to one row k = [ms, open, high, low, close]
MapRow(name, k) ==
  [time |-> IF name = "COINGECKO" THEN (k[1] \div 1000) * 1000 ELSE k[1],
   open |-> k[2], high |-> k[3], low |-> k[4], close |-> k[5]]

\* src.map(data) || []
MapRows(name, rows) == [i \in 1 .. Len(rows) |-> MapRow(name, rows[i])]

\* if (mapped.length > 0)
Yields_MoreThanOne(mapped) == Len(mapped) > 1

Yields(mapped) == Len(mapped) > 0

\* mapped.sort((a, b) => a.time - b.time)
SortMapped_Reverse(mapped) == ReverseSeq(mapped)

SortMapped(mapped) == SortByTime(mapped)

\* lastError after a response that yields no candles
SoftError_EmptyUnrecorded(src, r, last) ==
  IF r.kind = "reject" THEN [type |-> "Error", message |-> <<"fetch failed", src.name>>]
  ELSE IF r.kind = "status"
    THEN [type |-> "Error", message |-> <<src.name, "responded", "503">>]
  ELSE last

SoftError(src, r, last) ==
  IF r.kind = "reject"
    THEN [type |-> "Error", message |-> <<"fetch failed", src.name>>]
  ELSE IF r.kind = "status"
    THEN [type |-> "Error", message |-> <<src.name, "responded", "503">>]
  ELSE [type |-> "Error", message |-> <<src.name, "returned empty data">>]

\* throw lastError || new Error("All price sources failed")
Thrown(last) ==
  IF last # Null THEN last
  ELSE [type |-> "Error", message |-> <<"All price sources failed">>]

(***************************************************************************)
(* Inputs of the handler model.                                            *)
(***************************************************************************)
Symbols == {<<"BTC", "USDT">>, <<"PEPE", "USDT">>}

Intervals == {"1h", "2h"}

\* a provider row [ms, open, high, low, close]
Row(k) == <<500 * k, k, k + 1, k, k + 1>>

RawRows == {Row(k) : k \in 1 .. MaxTick}

SeqsUpTo(S, n) == UNION {[1 .. k -> S] : k \in 0 .. n}

\* what a provider request can end in: the fetch or the body parse throws,
\* a non-success status, or a body holding 0..MaxRows rows
Responses ==
  {[kind |-> "reject", rows |-> <<>>], [kind |-> "status", rows |-> <<>>]}
  \cup {[kind |-> "ok", rows |-> s] : s \in SeqsUpTo(RawRows, MaxRows)}

HandlerIdle ==
  /\ pc = "idle"
  /\ symbol = <<>>
  /\ htfInterval = ""
  /\ ltfInterval = ""
  /\ sources = <<>>
  /\ srcIdx = 0
  /\ requested = <<>>
  /\ inflight = 0
  /\ lastError = Null
  /\ response = Null
  /\ awaited = "none"
  /\ returned = Null
  /\ htfData = Null
  /\ ltfData = Null
  /\ reply = Null

AnalysisIdle ==
  /\ candlesInput = <<>>
  /\ analysis = buildSMCSignals(<<>>)

CombinerIdle ==
  /\ htf = Null
  /\ ltf = Null
  /\ mtf = Null

(***************************************************************************)
(* 5. API endpoint /api/mtf-signals, one step per await.                   *)
(***************************************************************************)
\* fetchKlines(sym, interval, limit) up to its first await fetch(src.url)
CallFetchKlines(sym, interval, limit) ==
  /\ sources' = Sources(sym, interval, limit)
  /\ srcIdx' = 1
  /\ requested' = <<Sources(sym, interval, limit)[1]>>
  /\ inflight' = 1
  /\ lastError' = Null
  /\ response' = Null
  /\ awaited' = "fetch"
  /\ returned' = Null

\* the handler is entered and awaits fetchKlines(symbol, htf, 200)
Request(sym, h, l) ==
  /\ pc = "idle"
  /\ pc' = "htf"
  /\ symbol' = sym
  /\ htfInterval' = h
  /\ ltfInterval' = l
  /\ CallFetchKlines(sym, h, 200)
  /\ UNCHANGED <<htfData, ltfData, reply, analysisVars, combinerVars>>

\* a request that ends without candles: the fetch or the parse throws, the
\* status is not a success, or the body maps to no candle
Failed(src, r) ==
  r.kind \in {"reject", "status"} \/ ~Yields(MapRows(src.name, r.rows))

\* for (const src of sources): the position the loop moves to
NextSrc_Retry(idx) == idx

NextSrc(idx) == idx + 1

\* the request to sources[srcIdx] has ended in r: fetchKlines runs on to its
\* return, its throw, or the next await fetch(src.url)
Respond(r) ==
  /\ response' = r
  /\ LET src == sources[srcIdx]
         mapped == MapRows(src.name, r.rows)
     IN  IF r.kind = "ok" /\ Yields(mapped)
           THEN /\ returned' = [type |-> "return",
                                candles |-> SortMapped(mapped),
                                source |-> src.name]
                /\ inflight' = 0
                /\ awaited' = "none"
                /\ UNCHANGED <<srcIdx, requested, lastError>>
           ELSE /\ lastError' = SoftError(src, r, lastError)
                /\ IF srcIdx < Len(sources)
                     THEN /\ srcIdx' = NextSrc(srcIdx)
                          /\ requested' = Append(requested,
                                                 sources[NextSrc(srcIdx)])
                          /\ inflight' = 1
                          /\ awaited' = "fetch"
                          /\ returned' = Null
                     ELSE /\ returned' = [type |-> "throw",
                                          error |-> Thrown(lastError')]
                          /\ inflight' = 0
                          /\ awaited' = "none"
                          /\ UNCHANGED <<srcIdx, requested>>
  /\ UNCHANGED <<pc, symbol, htfInterval, ltfInterval, sources, htfData,
                 ltfData, reply, analysisVars, combinerVars>>

\* await fetch(src.url) settles: it rejects or resolves with a non-success
\* status, and fetchKlines runs on; or it resolves with a success status, and
\* fetchKlines parks on await response.json() with the body still to come
FetchSettles(kind) ==
  /\ pc \in {"htf", "ltf"}
  /\ inflight = 1
  /\ returned = Null
  /\ awaited = "fetch"
  /\ IF kind = "ok"
       THEN /\ response' = [kind |-> "ok", rows |-> <<>>]
            /\ awaited' = "json"
            /\ UNCHANGED <<pc, symbol, htfInterval, ltfInterval, sources,
                           srcIdx, requested, inflight, lastError, returned,
                           htfData, ltfData, reply, analysisVars,
                           combinerVars>>
       ELSE Respond([kind |-> kind, rows |-> <<>>])

\* await response.json() settles: it throws, or it gives the rows of the body
JsonSettles(r) ==
  /\ pc \in {"htf", "ltf"}
  /\ inflight = 1
  /\ returned = Null
  /\ awaited = "json"
  /\ r.kind \in {"reject", "ok"}
  /\ Respond(r)

\* const htfData = await fetchKlines(...) resolves; the handler then awaits
\* fetchKlines(symbol, ltf, 300)
AwaitLtf ==
  /\ pc = "htf"
  /\ returned # Null
  /\ returned.type = "return"
  /\ htfData' = [candles |-> returned.candles, source |-> returned.source]
  /\ pc' = "ltf"
  /\ CallFetchKlines(symbol, ltfInterval, 300)
  /\ UNCHANGED <<symbol, htfInterval, ltfInterval, ltfData, reply,
                 analysisVars, combinerVars>>

\* the body of res.json(...); generatedAt is left out
ReplyBody(sym, h, l, hd, ld) ==
  LET htfSMC == buildSMCSignals(hd.candles)
      ltfSMC == buildSMCSignals(ld.candles)
      m == buildMtf(htfSMC, ltfSMC)
  IN  IF m = TypeError
        THEN [status |-> 500, error |-> <<"TypeError">>]
        ELSE [status |-> 200, symbol |-> sym, htfInterval |-> h,
              ltfInterval |-> l, dataSource |-> <<hd.source, "/", ld.source>>,
              htf |-> htfSMC, ltf |-> ltfSMC, mtfSignals |-> m]

\* const ltfData = await fetchKlines(...) resolves; the handler analyses both
\* timeframes, combines them and replies
Analyse ==
  /\ pc = "ltf"
  /\ returned # Null
  /\ returned.type = "return"
  /\ ltfData' = [candles |-> returned.candles, source |-> returned.source]
  /\ reply' = ReplyBody(symbol, htfInterval, ltfInterval, htfData, ltfData')
  /\ pc' = "done"
  /\ UNCHANGED <<symbol, htfInterval, ltfInterval, sources, srcIdx, requested,
                 inflight, lastError, response, awaited, returned, htfData,
                 analysisVars, combinerVars>>

\* catch (err): either fetchKlines call threw
Catch ==
  /\ pc \in {"htf", "ltf"}
  /\ returned # Null
  /\ returned.type = "throw"
  /\ reply' = [status |-> 500, error |-> returned.error.message]
  /\ pc' = "done"
  /\ UNCHANGED <<symbol, htfInterval, ltfInterval, sources, srcIdx, requested,
                 inflight, lastError, response, awaited, returned, htfData,
                 ltfData, analysisVars, combinerVars>>

Init == HandlerIdle /\ AnalysisIdle /\ CombinerIdle

Next ==
  \/ \E sym \in Symbols, h \in Intervals, l \in Intervals : Request(sym, h, l)
  \/ \E kind \in {"reject", "status", "ok"} : FetchSettles(kind)
  \/ \E r \in Responses : JsonSettles(r)
  \/ AwaitLtf
  \/ Analyse
  \/ Catch

Spec == Init /\ [][Next]_vars

(***************************************************************************)
(* The analysis pipeline on its own: buildSMCSignals is applied to every   *)
(* candle sequence of up to MaxLen candles, grown one candle at a time.    *)
(* A candle opens at one end of its range and closes at the other.         *)
(***************************************************************************)
CandleShapes ==
  {[open |-> lo, high |-> hi, low |-> lo, close |-> hi] :
     lo \in 0 .. MaxPrice, hi \in 0 .. MaxPrice}
  \cup
  {[open |-> hi, high |-> hi, low |-> lo, close |-> lo] :
     lo \in 0 .. MaxPrice, hi \in 0 .. MaxPrice}

\* the candle of shape sh that follows the candles seen so far
NextCandle(seen, sh) ==
  [time |-> 1000 * (Len(seen) + 1), open |-> sh.open, high |-> sh.high,
   low |-> sh.low, close |-> sh.close]

\* the series has one more candle, and buildSMCSignals runs on it
AnalyseSeries(sh) ==
  /\ Len(candlesInput) < MaxLen
  /\ sh.low <= sh.high
  /\ candlesInput' = Append(candlesInput, NextCandle(candlesInput, sh))
  /\ analysis' = buildSMCSignals(candlesInput')
  /\ UNCHANGED <<handlerVars, combinerVars>>

NextAnalysis == \E sh \in CandleShapes : AnalyseSeries(sh)

SpecAnalysis == Init /\ [][NextAnalysis]_vars

(***************************************************************************)
(* The combiner on its own: buildMtf is applied to every pair of a         *)
(* higher-timeframe result (events and zone lists) and a lower-timeframe   *)
(* result (last candle and markers) that buildSMCSignals can produce.      *)
(***************************************************************************)
BosEvents ==
  {Null, [type |-> "BOS_BULLISH", time |-> 1000, level |-> 0],
         [type |-> "BOS_BEARISH", time |-> 1000, level |-> 0]}

ChochEvents ==
  {Null, [type |-> "CHOCH_BULLISH", time |-> 1000],
         [type |-> "CHOCH_BEARISH", time |-> 1000]}

FvgZones ==
  {[type |-> t, lower |-> lo, upper |-> up, time |-> 1000] :
     t \in {"FVG_BULLISH", "FVG_BEARISH"},
     lo \in 0 .. MaxLevel, up \in 0 .. MaxLevel}

OrderBlocks ==
  {[type |-> t, time |-> 1000, high |-> hi, low |-> lo] :
     t \in {"OB_BULLISH", "OB_BEARISH"},
     lo \in 0 .. MaxLevel, hi \in 0 .. MaxLevel}

HtfResults ==
  {[type |-> "result",
    smcSignals |-> [bos |-> b, choch |-> c],
    fvgZones |-> f,
    orderBlocks |-> o] :
     b \in BosEvents, c \in ChochEvents,
     f \in SeqsUpTo({z \in FvgZones : z.lower < z.upper}, MaxZones),
     o \in SeqsUpTo({z \in OrderBlocks : z.low <= z.high}, MaxZones)}

FlatCandle(p) ==
  [time |-> 1000, open |-> p, high |-> p, low |-> p, close |-> p]

LtfResults ==
  {[type |-> "result", candles |-> <<>>, markers |-> <<>>]}
  \cup
  UNION {{[type |-> "result", candles |-> <<FlatCandle(p)>>, markers |-> m] :
            m \in {<<>>, <<BuyMarker(FlatCandle(p))>>,
                   <<SellMarker(FlatCandle(p))>>}} :
         p \in 0 .. MaxLevel}

InitCombiner ==
  /\ HandlerIdle
  /\ AnalysisIdle
  /\ htf \in HtfResults
  /\ ltf \in LtfResults
  /\ mtf = Null

\* const mtf = buildMtf(htfSMC, ltfSMC)
Combine ==
  /\ mtf = Null
  /\ mtf' = buildMtf(htf, ltf)
  /\ UNCHANGED <<handlerVars, analysisVars, htf, ltf>>

NextCombiner == Combine

SpecCombiner == InitCombiner /\ [][NextCombiner]_vars

(***************************************************************************)
(* Properties of fetchKlines and the handler, checked under Spec.          *)
(***************************************************************************)
Count(seq, x) == Cardinality({i \in 1 .. Len(seq) : seq[i] = x})

IsPermutation(s, t) ==
  /\ Len(s) = Len(t)
  /\ \A i \in 1 .. Len(s) : Count(s, s[i]) = Count(t, s[i])

Ascending(candles) ==
  \A i \in 1 .. Len(candles), j \in 1 .. Len(candles) :
    i < j => candles[i].time <= candles[j].time

\* the response last received carries a success status and its body, now
\* read, at least one row
GotCandles ==
  /\ response # Null
  /\ awaited # "json"
  /\ response.kind = "ok"
  /\ Len(response.rows) > 0

\* C1: once a provider answers with success status and at least one candle,
\* the call returns that provider's candles and name, and the requests issued
\* by the call are exactly those to that provider and the ones before it: no
\* lower-priority provider is contacted (in particular none at all when the
\* first provider yields candles).
C1_ShortCircuit ==
  /\ GotCandles =>
       /\ returned.type = "return"
       /\ returned.source = sources[srcIdx].name
       /\ IsPermutation(returned.candles,
                        MapRows(sources[srcIdx].name, response.rows))
  /\ returned.type = "return" =>
       /\ GotCandles
       /\ inflight = 0
       /\ requested = SubSeq(sources, 1, srcIdx)
       /\ \A i \in (srcIdx + 1) .. Len(sources) :
            \A j \in 1 .. Len(requested) : requested[j] # sources[i]

\* the first provider yielded candles and is the only one contacted
C1_Witness ==
  /\ pc = "htf"
  /\ returned.type = "return"
  /\ returned.source = "OKX"
  /\ requested = <<sources[1]>>
  /\ Len(sources) = 5

\* C2: the candles a fetchKlines call returns (and the handler keeps as
\* htfData and ltfData) are in non-decreasing order of time, whatever the
\* order of the rows in the provider's response.
C2_ReturnedAscending ==
  /\ returned.type = "return" => Ascending(returned.candles)
  /\ htfData # Null => Ascending(htfData.candles)
  /\ ltfData # Null => Ascending(ltfData.candles)

\* a response listing its rows newest first was returned oldest first
C2_Witness ==
  /\ returned.type = "return"
  /\ Len(response.rows) = 2
  /\ response.rows[1][1] > response.rows[2][1]
  /\ returned.candles[1].time < returned.candles[2].time

\* the error fetchKlines records for a failed request to the provider `name`
ExpectedError(name, kind) ==
  CASE kind = "reject" -> [type |-> "Error", message |-> <<"fetch failed", name>>]
    [] kind = "status" -> [type |-> "Error", message |-> <<name, "responded", "503">>]
    [] kind = "ok" -> [type |-> "Error", message |-> <<name, "returned empty data">>]

\* C3: when every provider fails, the call throws the error recorded for the
\* last provider tried (the last of sources), whichever way that provider
\* failed: transport exception, non-success status or zero candles.
C3_LastErrorWins ==
  returned.type = "throw" =>
    /\ srcIdx = Len(sources)
    /\ requested = sources
    /\ ~GotCandles
    /\ returned.error =
         ExpectedError(sources[Len(sources)].name, response.kind)

\* all five providers failed, the last one with an empty result
C3_Witness ==
  /\ returned.type = "throw"
  /\ Len(sources) = 5
  /\ response.kind = "ok"
  /\ returned.error.message = <<"COINGECKO", "returned empty data">>

\* the lower-timeframe fetchKlines call has been made
LtfFetchStarted ==
  \/ ltfData # Null
  \/ pc = "ltf"
  \/ (pc = "done" /\ requested # <<>> /\ requested[1].url.limit = 300)

\* C4: the lower-timeframe fetch is launched without waiting for the
\* higher-timeframe fetch: whenever the higher-timeframe fetch is awaiting a
\* provider, the lower-timeframe fetch has been started; and the reply is
\* built only after both have completed.
C4_LaunchedConcurrently ==
  /\ (pc = "htf" /\ inflight > 0) => LtfFetchStarted
  /\ (reply # Null /\ reply.status = 200) =>
       htfData # Null /\ ltfData # Null /\ inflight = 0

\* the interval of the fetchKlines call that is running
CallInterval == IF pc = "htf" THEN htfInterval ELSE ltfInterval

\* C10 as claimed: in the OKX and Bybit requests an interval that is a key of
\* the provider's table is replaced by the table's value and any other
\* interval is passed through unchanged.
C10_PassThrough ==
  pc \in {"htf", "ltf"} =>
    /\ sources[1].url.bar =
         IF CallInterval \in DOMAIN OKX_BAR_MAP
           THEN OKX_BAR_MAP[CallInterval] ELSE CallInterval
    /\ sources[2].url.interval =
         IF CallInterval \in DOMAIN BYBIT_INTERVAL_MAP
           THEN BYBIT_INTERVAL_MAP[CallInterval] ELSE CallInterval

\* C10 as amended: an interval that is a key of a provider's table is replaced
\* by the table's value; an interval that names no property of the table is
\* passed through unchanged into the OKX request (and, untranslated, into the
\* MEXC and BINANCE requests) but is replaced by "60" in the Bybit request.
C10_IntervalTranslation ==
  (pc \in {"htf", "ltf"} /\ CallInterval \notin ObjectPrototypeKeys) =>
    /\ sources[1].name = "OKX"
    /\ sources[1].url.bar =
         IF CallInterval \in DOMAIN OKX_BAR_MAP
           THEN OKX_BAR_MAP[CallInterval] ELSE CallInterval
    /\ sources[2].name = "BYBIT"
    /\ sources[2].url.interval =
         IF CallInterval \in DOMAIN BYBIT_INTERVAL_MAP
           THEN BYBIT_INTERVAL_MAP[CallInterval] ELSE "60"
    /\ sources[3].url.interval = CallInterval
    /\ sources[4].url.interval = CallInterval

\* Bybit is requested for an interval its table does not hold
C10_Witness ==
  /\ pc = "htf"
  /\ htfInterval \notin DOMAIN BYBIT_INTERVAL_MAP
  /\ Len(requested) = 2
  /\ requested[1].url.bar = htfInterval
  /\ requested[2].url.interval = "60"

(***************************************************************************)
(* Properties of the detectors and buildSMCSignals, checked under          *)
(* SpecAnalysis.                                                           *)
(***************************************************************************)
\* d.high > a.high && b.high <= a.high on the last three candles
BosBullishCondition(candles) ==
  LET n == Len(candles)
  IN  candles[n].high > candles[n - 2].high
        /\ candles[n - 1].high <= candles[n - 2].high

\* d.low < a.low && b.low >= a.low on the last three candles
BosBearishCondition(candles) ==
  LET n == Len(candles)
  IN  candles[n].low < candles[n - 2].low
        /\ candles[n - 1].low >= candles[n - 2].low

\* d.high > a.high && d.close < b.close on the last three candles
SweepHighCondition(candles) ==
  LET n == Len(candles)
  IN  candles[n].high > candles[n - 2].high
        /\ candles[n].close < candles[n - 1].close

\* C5: a sequence of fewer than 3 candles has no BOS event, and one of fewer
\* than 4 candles has no CHOCH and no sweep event, also when its last three
\* candles satisfy the sweep condition.
C5_ShortSequences ==
  /\ analysis.type = "result"
  /\ Len(candlesInput) < 3 => analysis.smcSignals.bos = Null
  /\ Len(candlesInput) < 4 =>
       /\ analysis.smcSignals.choch = Null
       /\ analysis.smcSignals.sweep = Null

\* three candles whose last three satisfy the sweep-high condition
C5_Witness ==
  /\ Len(candlesInput) = 3
  /\ SweepHighCondition(candlesInput)
  /\ analysis.smcSignals.sweep = Null

\* C8: buildSMCSignals and buildMtf never throw, on sequences of length
\* 0, 1, 2, 3 and longer: every event is null or an event, and on fewer than
\* 3 candles the zone lists and markers are empty and buildMtf returns a
\* result whose executionSignals is empty.
C8_NoException ==
  /\ analysis.type = "result"
  /\ analysis.smcSignals.bos.type \in {"null", "BOS_BULLISH", "BOS_BEARISH"}
  /\ analysis.smcSignals.choch.type \in {"null", "CHOCH_BULLISH", "CHOCH_BEARISH"}
  /\ analysis.smcSignals.sweep.type \in {"null", "SWEEP_HIGH", "SWEEP_LOW"}
  /\ buildMtf(analysis, analysis).type = "result"
  /\ Len(candlesInput) < 4 =>
       /\ analysis.markers = <<>>
       /\ buildMtf(analysis, analysis).executionSignals = <<>>
  /\ Len(candlesInput) < 3 =>
       /\ analysis.fvgZones = <<>>
       /\ analysis.orderBlocks = <<>>

\* two candles: the collectors' scan starts past the end and finds nothing
C8_Witness ==
  /\ Len(candlesInput) = 2
  /\ analysis.type = "result"
  /\ analysis.fvgZones = <<>>
  /\ buildMtf(analysis, analysis).executionSignals = <<>>

\* C9 as claimed: the bullish and the bearish condition of detectBOS never
\* hold together.
C9_Exclusive ==
  Len(candlesInput) >= 3 =>
    ~(BosBullishCondition(candlesInput) /\ BosBearishCondition(candlesInput))

\* C9 as amended: the two conditions can hold together (the last candle
\* engulfs the range of the third-from-last while the middle one stays inside
\* it), and the order of the checks then decides: detectBOS returns
\* BOS_BULLISH with level a.high whenever the bullish condition holds, and
\* BOS_BEARISH only when the bearish condition holds and the bullish fails.
C9_BullishFirst ==
  (analysis.type = "result" /\ Len(candlesInput) >= 3) =>
    LET n == Len(candlesInput)
        bos == analysis.smcSignals.bos
    IN  /\ BosBullishCondition(candlesInput) =>
             bos = [type |-> "BOS_BULLISH", time |-> candlesInput[n].time,
                    level |-> candlesInput[n - 2].high]
        /\ (~BosBullishCondition(candlesInput)
              /\ BosBearishCondition(candlesInput)) =>
             bos = [type |-> "BOS_BEARISH", time |-> candlesInput[n].time,
                    level |-> candlesInput[n - 2].low]
        /\ (~BosBullishCondition(candlesInput)
              /\ ~BosBearishCondition(candlesInput)) => bos = Null

\* both conditions hold and the bullish event is returned
C9_Witness ==
  /\ Len(candlesInput) >= 3
  /\ BosBullishCondition(candlesInput)
  /\ BosBearishCondition(candlesInput)
  /\ analysis.smcSignals.bos.type = "BOS_BULLISH"

(***************************************************************************)
(* Properties of buildMtf, checked under SpecCombiner.                     *)
(***************************************************************************)
\* the trigger price: the close of the lower timeframe's last candle
TriggerPrice ==
  LET lastCandle == At(ltf.candles, Len(ltf.candles) - 1)
  IN  IF lastCandle = Undefined THEN Undefined ELSE lastCandle.close

HasSignal(reason) ==
  \E i \in 1 .. Len(mtf.executionSignals) :
    /\ mtf.executionSignals[i].reason = reason
    /\ mtf.executionSignals[i].price = TriggerPrice

HasMarker(word) ==
  \E i \in 1 .. Len(ltf.markers) : ltf.markers[i].text[1] = word

\* C6: with HTF CHOCH and HTF BOS both absent the bias is NEUTRAL and
\* executionSignals is empty, whatever the LTF markers, HTF zones and LTF
\* last close.
C6_NeutralNoSignals ==
  (mtf.type = "result"
     /\ htf.smcSignals.choch = Null /\ htf.smcSignals.bos = Null) =>
    /\ mtf.htfBias = "NEUTRAL"
    /\ mtf.executionSignals = <<>>

\* neutral bias, a buy marker and a bullish zone that holds the trigger price
C6_Witness ==
  /\ mtf.type = "result"
  /\ htf.smcSignals.choch = Null
  /\ htf.smcSignals.bos = Null
  /\ HasMarker("BUY")
  /\ TriggerPrice > 0
  /\ getLatest(htf.fvgZones, "FVG_BULLISH") # Null
  /\ inside(TriggerPrice, getLatest(htf.fvgZones, "FVG_BULLISH").lower,
            getLatest(htf.fvgZones, "FVG_BULLISH").upper)
  /\ mtf.executionSignals = <<>>

\* a marker of the given side at a trigger price equal to a bound of the
\* latest zone of the given type yields the signal with the given reason
OnBoundYields(word, bias, zones, type, isFvg, reason) ==
  LET z == getLatest(zones, type)
  IN  (/\ HasMarker(word)
       /\ mtf.htfBias = bias
       /\ z # Null
       /\ TriggerPrice \in (IF isFvg THEN {z.lower, z.upper}
                                     ELSE {z.low, z.high}))
      => HasSignal(reason)

\* C7: zone membership is inclusive on both ends for every value of the
\* trigger price: a buy marker under bullish bias whose trigger price equals
\* a bound of the selected bullish FVG (or order block) yields the execution
\* signal for that zone, and the mirror for sell markers under bearish bias.
C7_BoundaryInclusive ==
  mtf.type = "result" =>
    /\ OnBoundYields("BUY", "BULLISH", htf.fvgZones, "FVG_BULLISH", TRUE,
                     "BUY in HTF FVG")
    /\ OnBoundYields("BUY", "BULLISH", htf.orderBlocks, "OB_BULLISH", FALSE,
                     "BUY in HTF Order Block")
    /\ OnBoundYields("SELL", "BEARISH", htf.fvgZones, "FVG_BEARISH", TRUE,
                     "SELL in HTF FVG")
    /\ OnBoundYields("SELL", "BEARISH", htf.orderBlocks, "OB_BEARISH", FALSE,
                     "SELL in HTF Order Block")

\* C11: the bias buildMtf derives is BULLISH exactly when HTF CHOCH is bullish
\* or HTF BOS is bullish (also when the other event is bearish), BEARISH
\* exactly when neither is bullish and at least one is bearish, and NEUTRAL
\* exactly when both are absent.
C11_BiasDerivation ==
  mtf.type = "result" =>
    LET bullish == htf.smcSignals.choch.type = "CHOCH_BULLISH"
                     \/ htf.smcSignals.bos.type = "BOS_BULLISH"
        bearish == htf.smcSignals.choch.type = "CHOCH_BEARISH"
                     \/ htf.smcSignals.bos.type = "BOS_BEARISH"
        absent == htf.smcSignals.choch = Null /\ htf.smcSignals.bos = Null
    IN  /\ mtf.htfBias \in {"BULLISH", "BEARISH", "NEUTRAL"}
        /\ mtf.htfBias = "BULLISH" <=> bullish
        /\ mtf.htfBias = "BEARISH" <=> (~bullish /\ bearish)
        /\ mtf.htfBias = "NEUTRAL" <=> absent

\* the two events disagree (CHOCH bearish, BOS bullish) and the bias is BULLISH
C11_Witness ==
  /\ mtf.type = "result"
  /\ htf.smcSignals.choch.type = "CHOCH_BEARISH"
  /\ htf.smcSignals.bos.type = "BOS_BULLISH"
  /\ mtf.htfBias = "BULLISH"

Emitted(word) ==
  \E i \in 1 .. Len(analysis.markers) : analysis.markers[i].text[1] = word

\* C12: buildSMCSignals emits a buy marker if and only if its CHOCH result is
\* bullish and its Sweep result is sweep-low, and a sell marker if and only
\* if CHOCH is bearish and Sweep is sweep-high; it never emits both, and
\* every emitted marker carries the time of the latest candle of the series.
C12_MarkerRule ==
  analysis.type = "result" =>
    LET choch == analysis.smcSignals.choch
        sweep == analysis.smcSignals.sweep
        markers == analysis.markers
    IN  /\ Emitted("BUY") <=>
             (choch.type = "CHOCH_BULLISH" /\ sweep.type = "SWEEP_LOW")
        /\ Emitted("SELL") <=>
             (choch.type = "CHOCH_BEARISH" /\ sweep.type = "SWEEP_HIGH")
        /\ ~(Emitted("BUY") /\ Emitted("SELL"))
        /\ Len(markers) <= 1
        /\ \A i \in 1 .. Len(markers) :
             /\ markers[i].text[1] \in {"BUY", "SELL"}
             /\ markers[i].time = candlesInput[Len(candlesInput)].time
             /\ \A k \in 1 .. Len(candlesInput) :
                  candlesInput[k].time <= markers[i].time

\* a series on which CHOCH is bullish and the sweep is a sweep-low, with the
\* buy marker emitted at the time of its last candle
C12_Witness ==
  /\ analysis.type = "result"
  /\ analysis.smcSignals.choch.type = "CHOCH_BULLISH"
  /\ analysis.smcSignals.sweep.type = "SWEEP_LOW"
  /\ Len(analysis.markers) = 1
  /\ analysis.markers[1].text[1] = "BUY"
  /\ analysis.markers[1].time = candlesInput[Len(candlesInput)].time

\* what C13 requires of one step of the handler
C13_Step ==
  /\ inflight' \in {0, 1}
  /\ inflight' = 1 => returned' = Null
  /\ requested' = SubSeq(sources', 1, srcIdx')
  /\ \A i, j \in 1 .. Len(requested') :
       requested'[i].name = requested'[j].name => i = j
  /\ (Len(requested') >= 2 /\ requested' # requested) =>
       /\ inflight = 1
       /\ requested' = Append(requested, sources[Len(requested) + 1])
       /\ Failed(requested[Len(requested)], response')

\* C13: within one fetchKlines call the providers are requested in priority
\* order, one at a time and each at most once; a request is issued only in
\* the step in which the request to the provider before it completes as a
\* failure (so every higher-priority provider has failed), at most one
\* request of the call is in flight, and no provider is requested again.
C13_SequentialNoRetry == [][C13_Step]_vars

\* two providers have failed one after the other and the request to the
\* third is the only one in flight
C13_Witness ==
  /\ pc \in {"htf", "ltf"}
  /\ Len(requested) = 3
  /\ requested = SubSeq(sources, 1, 3)
  /\ inflight = 1
  /\ awaited = "fetch"
  /\ response # Null
  /\ Failed(requested[2], response)

====
